---- MODULE Spec2Model ----
(***************************************************************************)
(* Model of src/unix/cups/jobs.rs: the CUPS job lister (get_printer_jobs   *)
(* and the PlatformPrinterJobGetters accessors of CupsJobsS) and the job   *)
(* submitter (print_file).                                                 *)
(*                                                                         *)
(* Host strings are sequences of character codes; a C string is such a     *)
(* sequence followed by the terminator 0; a C pointer to a string is       *)
(* either NULL or an address of the native memory NativeMem.  An unsigned  *)
(* 64-bit value is a sequence of four 16-bit limbs, least significant      *)
(* first, because 2^64 exceeds the integers TLC evaluates.                 *)
(***************************************************************************)
EXTENDS Integers, Sequences, FiniteSets, TLC

VARIABLES op, args, native, ret, printCalls, submissions, job, getter, got

vars == <<op, args, native, ret, printCalls, submissions, job, getter, got>>

callVars == <<op, args, native, ret, printCalls, submissions>>

jobVars == <<job, getter, got>>

----------------------------------------------------------------------------
(* Bounds of the model *)

MaxCalls == 3

MaxJobs == 3

----------------------------------------------------------------------------
(* Values *)

None == [tag |-> "None"]

Some(x) == [tag |-> "Some", val |-> x]

NULL == 0

Strings == {<< >>, <<65>>, <<66, 65>>}

I32Samples == {-2147483647 - 1, -1, 0, 1, 2147483647}

JobCounts == (-MaxJobs..MaxJobs) \cup {-2147483647 - 1, 2147483647}

JobPtrs == {NULL, 4096}

Orientations == {"Portrait", "Landscape"}

PrintOptions == [orientation : {None} \cup {Some(o) : o \in Orientations}]

LimbBase == 2^16

----------------------------------------------------------------------------
(* Conversion helpers and the native side's reading of a C string *)

str_to_cstring(s) == Append(s, 0)

CStrRead(bytes) ==
  LET k == CHOOSE i \in 1..Len(bytes) :
             bytes[i] = 0 /\ \A j \in 1..(i - 1) : bytes[j] # 0
  IN SubSeq(bytes, 1, k - 1)

SignExtend64(n) ==
  LET fill == IF n < 0 THEN LimbBase - 1 ELSE 0
  IN <<n % LimbBase, (n \div LimbBase) % LimbBase, fill, fill>>

----------------------------------------------------------------------------
(* get_printer_jobs *)

whichjobs_flipped(active_only) == IF active_only THEN -1 ELSE 0

whichjobs(active_only) == IF active_only THEN 0 ELSE -1

jobs_view_nonnegative(jobs_ptr, jobs_count) ==
  IF jobs_count >= 0
    THEN Some([ptr |-> jobs_ptr, len |-> SignExtend64(jobs_count)])
    ELSE None

jobs_view(jobs_ptr, jobs_count) ==
  IF jobs_count > 0
    THEN Some([ptr |-> jobs_ptr, len |-> SignExtend64(jobs_count)])
    ELSE None

GetPrinterJobs(printer_name, active_only, jobs_ptr, jobs_count) ==
  LET name == str_to_cstring(printer_name)
  IN /\ op' = "get_printer_jobs"
     /\ args' = [printer_name |-> printer_name, active_only |-> active_only]
     /\ native' = << [fn |-> "cupsGetJobs",
                      name |-> CStrRead(name),
                      myjobs |-> 0,
                      whichjobs |-> whichjobs(active_only),
                      jobs |-> jobs_ptr,
                      result |-> jobs_count] >>
     /\ ret' = jobs_view(jobs_ptr, jobs_count)
     /\ UNCHANGED <<printCalls, submissions>>
     /\ UNCHANGED jobVars

----------------------------------------------------------------------------
(* print_file *)

CUPS_ORIENTATION ==
  <<111, 114, 105, 101, 110, 116, 97, 116, 105, 111, 110, 45,
    114, 101, 113, 117, 101, 115, 116, 101, 100, 0>>

CUPS_ORIENTATION_PORTRAIT == <<51, 0>>

CUPS_ORIENTATION_LANDSCAPE == <<52, 0>>

options_vec_swapped(options) ==
  IF options.orientation.tag = "Some"
    THEN << [name |-> CUPS_ORIENTATION,
             value |-> IF options.orientation.val = "Landscape"
                         THEN CUPS_ORIENTATION_PORTRAIT
                         ELSE CUPS_ORIENTATION_LANDSCAPE] >>
    ELSE << >>

options_vec(options) ==
  IF options.orientation.tag = "Some"
    THEN << [name |-> CUPS_ORIENTATION,
             value |-> IF options.orientation.val = "Landscape"
                         THEN CUPS_ORIENTATION_LANDSCAPE
                         ELSE CUPS_ORIENTATION_PORTRAIT] >>
    ELSE << >>

title_always_file_path(job_name, file_path) == file_path

title_arg(job_name, file_path) ==
  IF job_name.tag = "Some" THEN job_name.val ELSE file_path

print_file_result_nonpositive(result) ==
  IF result <= 0 THEN [tag |-> "Err", val |-> "cupsPrintFile failed"]
                 ELSE [tag |-> "Ok"]

print_file_result(result) ==
  IF result = 0 THEN [tag |-> "Err", val |-> "cupsPrintFile failed"]
                ELSE [tag |-> "Ok"]

cupsPrintFileCall(printer, filename, title, vec, result) ==
  [fn |-> "cupsPrintFile",
   printer_name |-> CStrRead(printer),
   filename |-> CStrRead(filename),
   title |-> CStrRead(title),
   num_options |-> Len(vec),
   options |-> [i \in 1..Len(vec) |->
                  [name |-> CStrRead(vec[i].name),
                   value |-> CStrRead(vec[i].value)]],
   result |-> result]

print_file_retrying(printer_name, file_path, job_name, options, result) ==
  LET vec == options_vec(options)
      printer == str_to_cstring(printer_name)
      filename == str_to_cstring(file_path)
      title == str_to_cstring(title_arg(job_name, file_path))
      first == cupsPrintFileCall(printer, filename, title, vec, result)
  IN /\ printCalls < MaxCalls
     /\ op' = "print_file"
     /\ args' = [printer_name |-> printer_name, file_path |-> file_path,
                 job_name |-> job_name, options |-> options]
     /\ \E again \in I32Samples :
          /\ native' = IF result = 0
                         THEN << first,
                                 cupsPrintFileCall(printer, filename, title,
                                                   vec, again) >>
                         ELSE << first >>
          /\ ret' = print_file_result(IF result = 0 THEN again ELSE result)
     /\ printCalls' = printCalls + 1
     /\ submissions' = submissions + (IF result = 0 THEN 2 ELSE 1)
     /\ UNCHANGED jobVars

PrintFile(printer_name, file_path, job_name, options, result) ==
  LET vec == options_vec(options)
      printer == str_to_cstring(printer_name)
      filename == str_to_cstring(file_path)
      title == str_to_cstring(title_arg(job_name, file_path))
  IN /\ printCalls < MaxCalls
     /\ op' = "print_file"
     /\ args' = [printer_name |-> printer_name, file_path |-> file_path,
                 job_name |-> job_name, options |-> options]
     /\ native' = << cupsPrintFileCall(printer, filename, title, vec, result) >>
     /\ ret' = print_file_result(result)
     /\ printCalls' = printCalls + 1
     /\ submissions' = submissions + 1
     /\ UNCHANGED jobVars

----------------------------------------------------------------------------
(* CupsJobsS and its PlatformPrinterJobGetters accessors *)

NativeMem == [a \in {1, 2} |-> IF a = 1 THEN <<0>> ELSE <<66, 65, 0>>]

CharPtrs == {NULL} \cup DOMAIN NativeMem

TimeSamples == {-1, 0, 1, 1700000000}

CupsJobsS ==
  [id : I32Samples,
   dest : CharPtrs,
   title : CharPtrs,
   user : {NULL, 2},
   format : CharPtrs,
   state : {-1, 3, 9},
   size : {0},
   priority : {50},
   completed_time : TimeSamples,
   creation_time : TimeSamples,
   processing_time : TimeSamples]

c_char_to_string(p) == IF p = NULL THEN << >> ELSE CStrRead(NativeMem[p])

time_t_to_system_time(value) ==
  IF value > 0 THEN Some([secs |-> value, nanos |-> 0]) ELSE None

Return(v) == [outcome |-> "return", val |-> v]

Panic == [outcome |-> "panic"]

unwrap(o) == IF o.tag = "Some" THEN Return(o.val) ELSE Panic

get_id_zero_extended(self) ==
  <<self.id % LimbBase, (self.id \div LimbBase) % LimbBase, 0, 0>>

get_id(self) == SignExtend64(self.id)

get_name_reads_dest(self) == c_char_to_string(self.dest)

get_name(self) == c_char_to_string(self.title)

get_state(self) == SignExtend64(self.state)

get_printer(self) == c_char_to_string(self.dest)

get_media_type(self) == c_char_to_string(self.format)

get_created_at_or_epoch(self) ==
  LET t == time_t_to_system_time(self.creation_time)
  IN Return(IF t.tag = "Some" THEN t.val ELSE [secs |-> 0, nanos |-> 0])

get_created_at(self) == unwrap(time_t_to_system_time(self.creation_time))

get_processed_at_reads_completed(self) ==
  time_t_to_system_time(self.completed_time)

get_processed_at(self) == time_t_to_system_time(self.processing_time)

get_completed_at(self) == time_t_to_system_time(self.completed_time)

GetId ==
  /\ getter' = "get_id"
  /\ got' = Return(get_id(job))
  /\ UNCHANGED job
  /\ UNCHANGED callVars

GetName ==
  /\ getter' = "get_name"
  /\ got' = Return(get_name(job))
  /\ UNCHANGED job
  /\ UNCHANGED callVars

GetState ==
  /\ getter' = "get_state"
  /\ got' = Return(get_state(job))
  /\ UNCHANGED job
  /\ UNCHANGED callVars

GetPrinter ==
  /\ getter' = "get_printer"
  /\ got' = Return(get_printer(job))
  /\ UNCHANGED job
  /\ UNCHANGED callVars

GetMediaType ==
  /\ getter' = "get_media_type"
  /\ got' = Return(get_media_type(job))
  /\ UNCHANGED job
  /\ UNCHANGED callVars

GetCreatedAt ==
  /\ getter' = "get_created_at"
  /\ got' = get_created_at(job)
  /\ UNCHANGED job
  /\ UNCHANGED callVars

GetProcessedAt ==
  /\ getter' = "get_processed_at"
  /\ got' = Return(get_processed_at(job))
  /\ UNCHANGED job
  /\ UNCHANGED callVars

GetCompletedAt ==
  /\ getter' = "get_completed_at"
  /\ got' = Return(get_completed_at(job))
  /\ UNCHANGED job
  /\ UNCHANGED callVars

----------------------------------------------------------------------------
(* Specification of the two entry points *)

IdleJob ==
  [id |-> 0, dest |-> NULL, title |-> NULL, user |-> NULL, format |-> NULL,
   state |-> 0, size |-> 0, priority |-> 0,
   completed_time |-> 0, creation_time |-> 0, processing_time |-> 0]

Init ==
  /\ op = "idle"
  /\ args = << >>
  /\ native = << >>
  /\ ret = None
  /\ printCalls = 0
  /\ submissions = 0
  /\ job = IdleJob
  /\ getter = "none"
  /\ got = None

Next ==
  \/ \E printer_name \in Strings, active_only \in BOOLEAN,
        jobs_count \in JobCounts :
       \E jobs_ptr \in IF jobs_count > 0 THEN JobPtrs \ {NULL} ELSE JobPtrs :
         GetPrinterJobs(printer_name, active_only, jobs_ptr, jobs_count)
  \/ \E printer_name \in Strings, file_path \in Strings,
        job_name \in {None} \cup {Some(s) : s \in Strings},
        options \in PrintOptions, result \in I32Samples :
       PrintFile(printer_name, file_path, job_name, options, result)

Spec == Init /\ [][Next]_vars

----------------------------------------------------------------------------
(* Specification of the accessors: a native job record, then any accessor *)

InitJob ==
  /\ op = "idle"
  /\ args = << >>
  /\ native = << >>
  /\ ret = None
  /\ printCalls = 0
  /\ submissions = 0
  /\ job \in CupsJobsS
  /\ getter = "none"
  /\ got = None

NextJob ==
  \/ GetId
  \/ GetName
  \/ GetState
  \/ GetPrinter
  \/ GetMediaType
  \/ GetCreatedAt
  \/ GetProcessedAt
  \/ GetCompletedAt

SpecJob == InitJob /\ [][NextJob]_vars

----------------------------------------------------------------------------
(* Properties of get_printer_jobs and print_file, checked under Spec *)

(* C1: get_printer_jobs returns a present view whose length is exactly the
   count n the native list-jobs call reported when n > 0, and an absent
   result when n <= 0; never a present view of length 0, of a wrapped
   negative length, or of a length other than n. *)
C1_ViewLengthIsNativeCount ==
  op = "get_printer_jobs" =>
    LET n == native[1].result
    IN /\ Len(native) = 1
       /\ n > 0 =>
            /\ ret.tag = "Some"
            /\ ret.val.ptr = native[1].jobs
            /\ \A i \in 1..4 : ret.val.len[i] \in 0..(LimbBase - 1)
            /\ ret.val.len[3] = 0
            /\ ret.val.len[4] = 0
            /\ ret.val.len[2] < 2^15
            /\ ret.val.len[2] * LimbBase + ret.val.len[1] = n
       /\ n <= 0 => ret = None

C1_Witness ==
  /\ op = "get_printer_jobs"
  /\ args.printer_name = << >>
  /\ native[1].result = 3
  /\ ret.tag = "Some"
  /\ ret.val.len = <<3, 0, 0, 0>>

(* C2: print_file returns failure if and only if the native submission call
   returned 0; every nonzero return value, negative or of any magnitude,
   yields success. *)
C2_FailureIffZero ==
  op = "print_file" =>
    /\ Len(native) >= 1
    /\ ret.tag \in {"Ok", "Err"}
    /\ (ret.tag = "Err") <=> (native[Len(native)].result = 0)

C2_Witness ==
  /\ op = "print_file"
  /\ native[1].result = -2147483647 - 1
  /\ ret.tag = "Ok"

(* C3: the option list print_file passes to the native call is decided by
   options.orientation alone: landscape gives the single pair
   ("orientation-requested", "4"), portrait the single pair
   ("orientation-requested", "3"), no orientation no pair; the option count
   passed equals the number of pairs. *)
C3_OptionsFromOrientation ==
  op = "print_file" =>
    \A i \in 1..Len(native) :
      LET o == args.options.orientation
          name == <<111, 114, 105, 101, 110, 116, 97, 116, 105, 111, 110, 45,
                    114, 101, 113, 117, 101, 115, 116, 101, 100>>
          pairs == native[i].options
      IN /\ native[i].num_options = Len(pairs)
         /\ o = Some("Landscape") =>
              pairs = << [name |-> name, value |-> <<52>>] >>
         /\ o = Some("Portrait") =>
              pairs = << [name |-> name, value |-> <<51>>] >>
         /\ o = None => pairs = << >>

C3_Witness ==
  /\ op = "print_file"
  /\ args.options.orientation = Some("Landscape")
  /\ native[1].num_options = 1
  /\ native[1].options[1].value = <<52>>

(* C4: the title print_file passes to the native call is file_path when
   job_name is absent and job_name when it is present; the printer and
   file-name arguments are printer_name and file_path in every case. *)
C4_TitleDefaultsToFilePath ==
  op = "print_file" =>
    \A i \in 1..Len(native) :
      /\ args.job_name = None => native[i].title = args.file_path
      /\ args.job_name # None => native[i].title = args.job_name.val
      /\ native[i].printer_name = args.printer_name
      /\ native[i].filename = args.file_path

C4_Witness ==
  /\ op = "print_file"
  /\ args.job_name = None
  /\ args.file_path = <<66, 65>>
  /\ args.printer_name = <<65>>
  /\ native[1].title = <<66, 65>>

(* C5: the native list-jobs call receives the filter code 0 when active_only
   is true and -1 when it is false, always the mine-only argument 0, and
   the caller's printer_name unchanged, the empty string included. *)
C5_ListJobsArguments ==
  op = "get_printer_jobs" =>
    \A i \in 1..Len(native) :
      /\ native[i].fn = "cupsGetJobs"
      /\ args.active_only => native[i].whichjobs = 0
      /\ ~args.active_only => native[i].whichjobs = -1
      /\ native[i].myjobs = 0
      /\ native[i].name = args.printer_name

C5_Witness ==
  /\ op = "get_printer_jobs"
  /\ args.printer_name = << >>
  /\ ~args.active_only
  /\ native[1].whichjobs = -1
  /\ native[1].name = << >>

(* C9: every print_file call makes exactly one native submission, whatever
   it returns: a returned 0 is reported as failure with no second attempt,
   and k print_file calls have produced exactly k native submissions. *)
C9_OneSubmissionPerCall ==
  /\ submissions = printCalls
  /\ op = "print_file" =>
       /\ Len(native) = 1
       /\ native[1].fn = "cupsPrintFile"
       /\ native[1].result = 0 => ret.tag = "Err"

C9_Witness ==
  /\ op = "print_file"
  /\ printCalls = 3
  /\ submissions = 3
  /\ native[1].result = 0
  /\ ret.tag = "Err"

----------------------------------------------------------------------------
(* Properties of the accessors, checked under SpecJob *)

(* C6: get_processed_at (get_completed_at) yields absent when processing_time
   (completed_time) is zero and, for a nonzero representable value, the
   present conversion of that same epoch-seconds field; each reads only its
   own field, whatever the other two timestamps hold. *)
C6_OptionalTimestamps ==
  /\ getter = "get_processed_at" =>
       /\ got.outcome = "return"
       /\ got.val = time_t_to_system_time(job.processing_time)
       /\ job.processing_time = 0 => got.val = None
       /\ job.processing_time > 0 =>
            got.val = Some([secs |-> job.processing_time, nanos |-> 0])
  /\ getter = "get_completed_at" =>
       /\ got.outcome = "return"
       /\ got.val = time_t_to_system_time(job.completed_time)
       /\ job.completed_time = 0 => got.val = None
       /\ job.completed_time > 0 =>
            got.val = Some([secs |-> job.completed_time, nanos |-> 0])

C6_Witness ==
  /\ getter = "get_processed_at"
  /\ job.processing_time = 0
  /\ job.completed_time = 1700000000
  /\ job.creation_time = 1
  /\ got = Return(None)

(* C7: get_name, get_printer and get_media_type return the conversion of
   title, dest and format respectively, and yield the empty string without
   failing when that field is a null pointer, whatever the other fields
   hold. *)
C7_StringAccessors ==
  /\ getter = "get_name" =>
       /\ got = Return(c_char_to_string(job.title))
       /\ job.title = NULL => got = Return(<< >>)
  /\ getter = "get_printer" =>
       /\ got = Return(c_char_to_string(job.dest))
       /\ job.dest = NULL => got = Return(<< >>)
  /\ getter = "get_media_type" =>
       /\ got = Return(c_char_to_string(job.format))
       /\ job.format = NULL => got = Return(<< >>)

C7_Witness ==
  /\ getter = "get_name"
  /\ job.title = NULL
  /\ job.dest = 2
  /\ job.format = 2
  /\ got = Return(<< >>)

(* C8: get_id and get_state widen the signed 32-bit field n to an unsigned
   64-bit value and never fail: the result is n for n >= 0 and 2^64 + n for
   n < 0 (high 32 bits all ones), with no validation of the value.  With
   limbs l the value is l[1] + l[2]*2^16 + l[3]*2^32 + l[4]*2^48, so for
   n < 0 the value is 2^64 + n exactly when l[3] = l[4] = 2^16 - 1 and
   (l[2] - 2^16) * 2^16 + l[1] = n. *)
C8_WideningCasts ==
  LET Widened(n, l) ==
        /\ \A i \in 1..4 : l[i] \in 0..(LimbBase - 1)
        /\ n >= 0 =>
             /\ l[3] = 0
             /\ l[4] = 0
             /\ l[2] < 2^15
             /\ l[2] * LimbBase + l[1] = n
        /\ n < 0 =>
             /\ l[3] = LimbBase - 1
             /\ l[4] = LimbBase - 1
             /\ l[2] >= 2^15
             /\ (l[2] - LimbBase) * LimbBase + l[1] = n
  IN /\ getter = "get_id" =>
          got.outcome = "return" /\ Widened(job.id, got.val)
     /\ getter = "get_state" =>
          got.outcome = "return" /\ Widened(job.state, got.val)

C8_Witness ==
  /\ getter = "get_id"
  /\ job.id = -1
  /\ got = Return(<<65535, 65535, 65535, 65535>>)

(* C10: get_created_at never returns a synthetic or default time: it returns
   exactly the converted creation_time when the conversion is present and
   panics when the conversion is absent, in particular for creation_time = 0,
   where get_processed_at and get_completed_at return absent instead. *)
C10_CreatedAtPanicsWhenAbsent ==
  LET conv == time_t_to_system_time(job.creation_time)
  IN /\ getter = "get_created_at" =>
          /\ conv.tag = "Some" => got = Return(conv.val)
          /\ conv.tag = "None" => got = Panic
          /\ job.creation_time = 0 => got = Panic
          /\ got.outcome = "return" =>
               got.val = [secs |-> job.creation_time, nanos |-> 0]
     /\ (getter = "get_processed_at" /\ job.processing_time = 0) =>
          got = Return(None)
     /\ (getter = "get_completed_at" /\ job.completed_time = 0) =>
          got = Return(None)

C10_Witness ==
  /\ getter = "get_created_at"
  /\ job.creation_time = 0
  /\ job.processing_time = 1
  /\ got = Panic

====
